---- MODULE Spec2Model ----
(***************************************************************************)
(* A model of NodeOmnibusServer (src/src/index.ts): the tool dispatcher,   *)
(* the seven scaffolding handlers, the prompt surface and the in-memory    *)
(* document store, over an abstract filesystem.                            *)
(*                                                                         *)
(* Every request is one asynchronous task.  JavaScript between two awaits  *)
(* runs atomically (one thread); an awaited filesystem or subprocess       *)
(* operation is performed by the environment at some later step            *)
(* (IoComplete), and the task resumes at some step after that.             *)
(***************************************************************************)
EXTENDS Integers, Sequences, FiniteSets, TLC

VARIABLES fs, projectDocs, task, reply

vars == <<fs, projectDocs, task, reply>>

\* Number of requests the model admits (each task slot serves one request).
MaxTasks == 2

Tasks == 1..MaxTasks

-----------------------------------------------------------------------------
(* JavaScript values.                                                      *)

\* An object is a function from its keys; an omitted key reads as undefined.
Has(o, k) == k \in DOMAIN o

EmptyObj == [k \in {} |-> ""]

\* obj[k] = v
Put(o, k, v) == [x \in (DOMAIN o) \cup {k} |-> IF x = k THEN v ELSE o[x]]

\* { ...a, ...b }
Spread(a, b) == [x \in (DOMAIN a) \cup (DOMAIN b) |-> IF x \in DOMAIN b THEN b[x] ELSE a[x]]

\* `${v}` of a possibly omitted string argument
Str(o, k) == IF Has(o, k) THEN o[k] ELSE "undefined"

\* JSON.stringify(o): the text of a JSON file is modelled by the object it
\* denotes.
Stringify(o) == [t |-> "json", v |-> o]

\* JSON.stringify drops the keys whose value is undefined (o: string values).
DropUndefined(o) == [k \in {x \in DOMAIN o : o[x] # "undefined"} |-> o[k]]

Text(v) == [t |-> "text", v |-> v]

\* ''
EmptyText == Text([doc |-> "empty"])

\* JSON.parse throws on text that is not JSON.
Parses(data) == data.t = "json"

-----------------------------------------------------------------------------
(* Paths and the filesystem.  A path is the sequence of its segments; fs   *)
(* maps every existing path to a directory or to a file with its data.     *)

Dir == [kind |-> "dir"]

File(data) == [kind |-> "file", data |-> data]

Exists(f, p) == p = <<>> \/ p \in DOMAIN f

IsDir(f, p) == p = <<>> \/ (p \in DOMAIN f /\ f[p].kind = "dir")

IsFile(f, p) == p \in DOMAIN f /\ f[p].kind = "file"

Parent(p) == SubSeq(p, 1, Len(p) - 1)

\* path.join(p, s); path.join(p, '') is p itself
Join(p, s) == IF s = "" THEN p ELSE Append(p, s)

\* path.basename(p)
Basename(p) == IF p = <<>> THEN "" ELSE p[Len(p)]

Prefixes(p) == {SubSeq(p, 1, n) : n \in 1..Len(p)}

FsPut(f, p, e) == [x \in (DOMAIN f) \cup {p} |-> IF x = p THEN e ELSE f[x]]

FsPutAll(f, ps, e) == [x \in (DOMAIN f) \cup ps |-> IF x \in ps THEN e ELSE f[x]]

-----------------------------------------------------------------------------
(* Errors and outcomes.                                                    *)

McpError(code, msg) == [mcp |-> TRUE, code |-> code, msg |-> msg]

\* Any thrown value that is not an McpError (TypeError, SyntaxError, errno).
RawError == [mcp |-> FALSE, code |-> "none", msg |-> "raw"]

Success(text) == [kind |-> "success", code |-> "none", msg |-> text]

Failure(err) == [kind |-> IF err.mcp THEN "error" ELSE "raw", code |-> err.code, msg |-> err.msg]

NoOut == [kind |-> "none", code |-> "none", msg |-> ""]

-----------------------------------------------------------------------------
(* Awaited operations.                                                     *)

NoCall == [op |-> "none", path |-> <<>>, data |-> EmptyText]

NoRet == [st |-> "none", val |-> EmptyText]

Pending == [st |-> "pending", val |-> EmptyText]

Mkdir(p) == [op |-> "mkdir", path |-> p, data |-> EmptyText]

WriteFile(p, data) == [op |-> "writeFile", path |-> p, data |-> data]

ReadFile(p) == [op |-> "readFile", path |-> p, data |-> EmptyText]

Access(p) == [op |-> "access", path |-> p, data |-> EmptyText]

Stat(p) == [op |-> "stat", path |-> p, data |-> EmptyText]

\* execAsync(cmd, { cwd })
Exec(cmd, cwd) == [op |-> "exec", path |-> cwd, data |-> cmd]

Cmd(kind, text, pkgs, dev) == [t |-> "cmd", kind |-> kind, text |-> text, pkgs |-> pkgs, dev |-> dev]

IdleTask == [tool |-> "none", args |-> EmptyObj, pc |-> "idle", call |-> NoCall,
             ret |-> NoRet, loc |-> EmptyText, log |-> <<>>, out |-> NoOut]

-----------------------------------------------------------------------------
(* What the environment does with an awaited operation: the set of its     *)
(* possible outcomes [fs, ok, val, fx] on filesystem f.  fx is the set of  *)
(* side effects performed.  An operation that could succeed may also fail  *)
(* for a reason outside the model (permissions, disk, a failing tool).     *)

Outcome(f, ok, val, fx) == [fs |-> f, ok |-> ok, val |-> val, fx |-> fx]

FxDir(p) == [k |-> "dir", at |-> p, what |-> EmptyText]

FxFile(p) == [k |-> "file", at |-> p, what |-> EmptyText]

FxProc(cwd, cmd) == [k |-> "proc", at |-> cwd, what |-> cmd]

\* fs.mkdir(p, { recursive: true }) creates the missing directories from the
\* top down; if one creation fails, the ones made before it stay.
MkdirOutcomes(f, p) ==
    LET missing == {q \in Prefixes(p) : ~Exists(f, q)}
        blocked == \E q \in Prefixes(p) : IsFile(f, q)
        made(n) == {q \in missing : Len(q) <= Len(p) - Cardinality(missing) + n}
    IN  IF blocked THEN {Outcome(f, FALSE, EmptyText, {})}
        ELSE {Outcome(FsPutAll(f, made(n), Dir), n = Cardinality(missing), EmptyText,
                      {FxDir(q) : q \in made(n)}) : n \in 0..Cardinality(missing)}

EnvFails(f) == {Outcome(f, FALSE, EmptyText, {})}

WriteFileOutcomes(f, p, data) ==
    IF p # <<>> /\ IsDir(f, Parent(p)) /\ ~IsDir(f, p)
    THEN {Outcome(FsPut(f, p, File(data)), TRUE, EmptyText, {FxFile(p)})} \cup EnvFails(f)
    ELSE EnvFails(f)

ReadFileOutcomes(f, p) ==
    IF IsFile(f, p) THEN {Outcome(f, TRUE, f[p].data, {})} \cup EnvFails(f) ELSE EnvFails(f)

AccessOutcomes(f, p) ==
    IF Exists(f, p) THEN {Outcome(f, TRUE, EmptyText, {})} ELSE EnvFails(f)

\* val: stats.isDirectory()
StatOutcomes(f, p) ==
    IF Exists(f, p)
    THEN {Outcome(f, TRUE, Text([doc |-> "stats", isDirectory |-> IsDir(f, p)]), {})} \cup EnvFails(f)
    ELSE EnvFails(f)

\* The project generators (npm init -y, create-react-app, create-next-app)
\* leave a package.json in the working directory.
GeneratedPackageJson(cwd) ==
    Stringify([name |-> Basename(cwd), scripts |-> [k \in {"test"} |-> "exit 1"]])

\* npm install [--save-dev] pkgs records the packages in package.json.
InstalledPackageJson(old, cmd) ==
    LET key == IF cmd.dev THEN "devDependencies" ELSE "dependencies"
        had == IF Has(old, key) THEN old[key] ELSE EmptyObj
        new == [n \in {cmd.pkgs[i] : i \in 1..Len(cmd.pkgs)} |-> "latest"]
    IN  Stringify(Put(old, key, Spread(had, new)))

ExecEffect(f, cwd, cmd) ==
    LET pj == Join(cwd, "package.json")
    IN  IF cmd.kind = "generate"
        THEN IF Exists(f, pj) THEN f ELSE FsPut(f, pj, File(GeneratedPackageJson(cwd)))
        ELSE IF IsFile(f, pj)
             THEN FsPut(f, pj, File(InstalledPackageJson(f[pj].data.v, cmd)))
             ELSE FsPut(f, pj, File(InstalledPackageJson(EmptyObj, cmd)))

\* A process that exits non-zero rejects the promise; no process is spawned
\* when the working directory is not a directory.
ExecOutcomes(f, cwd, cmd) ==
    LET pj == Join(cwd, "package.json")
        runs == IsDir(f, cwd)
        works == cmd.kind = "generate" \/ ~Exists(f, pj) \/ (IsFile(f, pj) /\ Parses(f[pj].data))
    IN  IF ~runs THEN EnvFails(f)
        ELSE {Outcome(f, FALSE, EmptyText, {FxProc(cwd, cmd)})} \cup
             (IF works THEN {Outcome(ExecEffect(f, cwd, cmd), TRUE, EmptyText, {FxProc(cwd, cmd)})}
              ELSE {})

IoOutcomes(f, c) ==
    CASE c.op = "mkdir" -> MkdirOutcomes(f, c.path)
      [] c.op = "writeFile" -> WriteFileOutcomes(f, c.path, c.data)
      [] c.op = "readFile" -> ReadFileOutcomes(f, c.path)
      [] c.op = "access" -> AccessOutcomes(f, c.path)
      [] c.op = "stat" -> StatOutcomes(f, c.path)
      [] c.op = "exec" -> ExecOutcomes(f, c.path, c.data)

-----------------------------------------------------------------------------
(* Task bookkeeping.                                                       *)

\* await op: the task suspends at pc until the environment completes op.
\* log: one entry per awaited step, in the order the steps were started.
Suspend(tk, pc, call) ==
    [tk EXCEPT !.pc = pc, !.call = call, !.ret = Pending,
               !.log = Append(@, [step |-> pc, st |-> "called", fx |-> {}])]

\* The request is answered.
Finish(tk, out) == [tk EXCEPT !.pc = "done", !.call = NoCall, !.ret = NoRet, !.out = out]

InFlight(tk) == tk.pc \notin {"idle", "done"}

\* Mutant: an operation that is still awaited may time out, and the
\* invocation is then answered with an error.
IoCompleteOrTimeout(t) ==
    /\ InFlight(task[t])
    /\ task[t].ret.st = "pending"
    /\ \/ \E o \in IoOutcomes(fs, task[t].call) :
              /\ fs' = o.fs
              /\ task' = [task EXCEPT ![t].ret = [st |-> IF o.ok THEN "ok" ELSE "err", val |-> o.val],
                                      ![t].log[Len(task[t].log)] =
                                          [@ EXCEPT !.st = IF o.ok THEN "ok" ELSE "err", !.fx = o.fx]]
       \/ /\ fs' = fs
          /\ task' = [task EXCEPT ![t] = Finish(task[t], Failure(McpError("InternalError", "Timed out")))]
    /\ UNCHANGED <<projectDocs, reply>>

\* The environment performs the awaited operation of task t.
IoComplete(t) ==
    /\ InFlight(task[t])
    /\ task[t].ret.st = "pending"
    /\ \E o \in IoOutcomes(fs, task[t].call) :
          /\ fs' = o.fs
          /\ task' = [task EXCEPT ![t].ret = [st |-> IF o.ok THEN "ok" ELSE "err", val |-> o.val],
                                  ![t].log[Len(task[t].log)] =
                                      [@ EXCEPT !.st = IF o.ok THEN "ok" ELSE "err", !.fx = o.fx]]
    /\ UNCHANGED <<projectDocs, reply>>

-----------------------------------------------------------------------------
(* create_project                                                          *)

ProjectTypes == {"react", "node", "next", "express", "fastify"}

\* getProjectTemplate: the templates table; found is FALSE where the code
\* throws McpError(InvalidParams, 'Unsupported project type').
getProjectTemplate(type, typescript) ==
    CASE type = "react" ->
           [found |-> TRUE,
            command |-> IF typescript THEN "npx create-react-app ./ --template typescript"
                        ELSE "npx create-react-app ./",
            dependencies |-> <<"react", "react-dom">>,
            devDependencies |-> IF typescript THEN <<"@types/react", "@types/react-dom", "@types/node">>
                                ELSE <<>>]
      [] type = "next" ->
           [found |-> TRUE,
            command |-> IF typescript THEN "npx create-next-app@latest ./ --typescript --tailwind --eslint"
                        ELSE "npx create-next-app@latest ./  --tailwind --eslint",
            dependencies |-> <<"next", "react", "react-dom">>,
            devDependencies |-> IF typescript THEN <<"@types/node", "@types/react", "@types/react-dom">>
                                ELSE <<>>]
      [] type = "express" ->
           [found |-> TRUE,
            command |-> "npm init -y",
            dependencies |-> <<"express", "cors", "dotenv">>,
            devDependencies |-> IF typescript
                                THEN <<"typescript", "@types/node", "@types/express", "@types/cors", "ts-node", "nodemon">>
                                ELSE <<"nodemon">>]
      [] type = "fastify" ->
           [found |-> TRUE,
            command |-> "npm init -y",
            dependencies |-> <<"fastify", "@fastify/cors", "@fastify/env">>,
            devDependencies |-> IF typescript THEN <<"typescript", "@types/node", "ts-node", "nodemon">>
                                ELSE <<"nodemon">>]
      [] type = "node" ->
           [found |-> TRUE,
            command |-> "npm init -y",
            dependencies |-> <<>>,
            devDependencies |-> IF typescript THEN <<"typescript", "@types/node", "ts-node", "nodemon">>
                                ELSE <<"nodemon">>]
      [] OTHER ->
           [found |-> FALSE, command |-> "", dependencies |-> <<>>, devDependencies |-> <<>>]

\* Mutant: an omitted typescript counts as false.
TypescriptFlagUnlessOmitted(a) == Has(a, "typescript") /\ a.typescript = TRUE

\* const typescript = args.typescript !== false
TypescriptFlag(a) == ~(Has(a, "typescript") /\ a.typescript = FALSE)

\* generateReadme(name, type, typescript): the text is determined by the
\* three values substituted into the template, and is never empty.
generateReadme(name, type, typescript) ==
    Text([doc |-> "readme", name |-> name, type |-> type, typescript |-> typescript])

\* The tsConfig object written by create_project.
ProjectTsConfig(type) ==
    [compilerOptions |->
        DropUndefined([target |-> "es2020", module |-> "commonjs", outDir |-> "./dist",
                       rootDir |-> "./src", strict |-> "true", esModuleInterop |-> "true",
                       skipLibCheck |-> "true", forceConsistentCasingInFileNames |-> "true",
                       jsx |-> IF type = "react" \/ type = "next" THEN "react-jsx" ELSE "undefined"]),
     include |-> <<"src/**/*">>,
     exclude |-> <<"node_modules", "dist">>]

\* Mutant: the catch lets an McpError through unchanged.
CreateProjectCatchRethrow(err) ==
    IF err.mcp THEN err ELSE McpError("InternalError", "Failed to create project")

\* catch (error) of handleCreateProject: whatever was thrown, McpError or
\* not, leaves as InternalError.
CreateProjectCatch(err) == McpError("InternalError", "Failed to create project")

\* Mutant: the catch wraps whatever was thrown.
DispatchCatchWrapAll(err) == McpError("InternalError", "Error executing")

\* catch (error) of the CallToolRequestSchema handler.
DispatchCatch(err) ==
    IF err.mcp THEN err ELSE McpError("InternalError", "Error executing")

\* The rest of the step sequence, from the README on.
CpReadme(tk, projectPath) ==
    LET a == tk.args
        readmeContent == generateReadme(a.name, Str(a, "type"), TypescriptFlag(a))
    IN  [Suspend(tk, "cp_readme", WriteFile(Join(projectPath, "README.md"), readmeContent))
            EXCEPT !.loc = readmeContent]

CpTypescript(tk, projectPath) ==
    IF TypescriptFlag(tk.args)
    THEN Suspend(tk, "cp_src", Mkdir(Join(projectPath, "src")))
    ELSE CpReadme(tk, projectPath)

CpDevDependencies(tk, projectPath) ==
    LET template == getProjectTemplate(Str(tk.args, "type"), TypescriptFlag(tk.args))
    IN  IF Len(template.devDependencies) > 0
        THEN Suspend(tk, "cp_dev",
                     Exec(Cmd("install", "npm install --save-dev", template.devDependencies, TRUE),
                          projectPath))
        ELSE CpTypescript(tk, projectPath)

\* Mutant: the dependency install is left out.
CpDependenciesSkipped(tk, projectPath) == CpDevDependencies(tk, projectPath)

CpDependencies(tk, projectPath) ==
    LET template == getProjectTemplate(Str(tk.args, "type"), TypescriptFlag(tk.args))
    IN  IF Len(template.dependencies) > 0
        THEN Suspend(tk, "cp_deps",
                     Exec(Cmd("install", "npm install", template.dependencies, FALSE), projectPath))
        ELSE CpDevDependencies(tk, projectPath)

\* handleCreateProject up to its first await.
CreateProjectBegin(tk) ==
    LET a == tk.args
    IN  IF ~Has(a, "path") \/ ~Has(a, "name")
        THEN \* path.join throws a TypeError on a non-string argument
             Finish(tk, Failure(DispatchCatch(CreateProjectCatch(RawError))))
        ELSE Suspend(tk, "cp_mkdir", Mkdir(Join(a.path, a.name)))

\* Mutant: a failing install is swallowed and the sequence goes on.
RejectedUnlessInstall(tk) == tk.ret.st = "err" /\ tk.pc \notin {"cp_deps", "cp_dev"}

\* An awaited step that rejects throws into the handler's catch.
Rejected(tk) == tk.ret.st = "err"

\* Mutant: an entry that is already there is kept.
StoreReadmeOnce(tk, docs) ==
    IF Has(docs, tk.args.name) THEN docs ELSE Put(docs, tk.args.name, tk.loc)

\* Mutant: the README is stored under the last segment of path.
StoreReadmeUnderPath(tk, docs) == Put(docs, Basename(tk.args.path), tk.loc)

\* this.projectDocs.set(args.name, readmeContent)
StoreReadme(tk, docs) == Put(docs, tk.args.name, tk.loc)

\* handleCreateProject from the await it is suspended at to the next one.
\* Yields the task and the document store.
CreateProjectResume(tk, docs) ==
    LET a == tk.args
        projectPath == Join(a.path, a.name)
        typescript == TypescriptFlag(a)
        template == getProjectTemplate(Str(a, "type"), typescript)
        thrown(err) == [tk |-> Finish(tk, Failure(DispatchCatch(CreateProjectCatch(err)))), docs |-> docs]
        go(next) == [tk |-> next, docs |-> docs]
    IN  IF Rejected(tk) THEN thrown(RawError)
        ELSE CASE tk.pc = "cp_mkdir" ->
                    IF ~template.found THEN thrown(McpError("InvalidParams", "Unsupported project type"))
                    ELSE go(Suspend(tk, "cp_gen",
                                    Exec(Cmd("generate", template.command, <<>>, FALSE), projectPath)))
               [] tk.pc = "cp_gen" -> go(CpDependencies(tk, projectPath))
               [] tk.pc = "cp_deps" -> go(CpDevDependencies(tk, projectPath))
               [] tk.pc = "cp_dev" -> go(CpTypescript(tk, projectPath))
               [] tk.pc = "cp_src" ->
                    go(Suspend(tk, "cp_tsconfig",
                               WriteFile(Join(projectPath, "tsconfig.json"),
                                         Stringify(ProjectTsConfig(Str(a, "type"))))))
               [] tk.pc = "cp_tsconfig" -> go(CpReadme(tk, projectPath))
               [] tk.pc = "cp_readme" ->
                    [tk |-> Finish(tk, Success("Project created successfully")),
                     docs |-> StoreReadme(tk, docs)]

-----------------------------------------------------------------------------
(* validatePath, and the six handlers that start with it.  A handler is    *)
(* given as Begin (from validatePath's return to the first await) and      *)
(* Resume (from one await to the next); both yield [tk, docs].             *)

Go(tk, docs) == [tk |-> tk, docs |-> docs]

\* An error leaves the handler and passes the dispatcher's catch.
Throw(tk, docs, err) == Go(Finish(tk, Failure(DispatchCatch(err))), docs)

InvalidPath == McpError("InvalidParams", "Failed to validate/create path")

NotADirectory == McpError("InvalidParams", "exists but is not a directory")

ValidatePathPcs == {"vp_access", "vp_mkdir", "vp_stat"}

\* validatePath up to its first await.  A path that is not a string makes
\* fs.access and then fs.mkdir reject at once.
ValidatePathBegin(tk, docs) ==
    IF ~Has(tk.args, "path") THEN Throw(tk, docs, InvalidPath)
    ELSE Go(Suspend(tk, "vp_access", Access(tk.args.path)), docs)

\* Mutant: whatever the stat found, validatePath returns.
ValidatePathReturnsAnyStat(tk) ==
    \/ tk.pc = "vp_mkdir" /\ tk.ret.st = "ok"
    \/ tk.pc = "vp_stat" /\ tk.ret.st = "ok"

\* validatePath returns to the handler: the mkdir succeeded, or the stat
\* found a directory.
ValidatePathReturns(tk) ==
    \/ tk.pc = "vp_mkdir" /\ tk.ret.st = "ok"
    \/ tk.pc = "vp_stat" /\ tk.ret.st = "ok" /\ tk.ret.val.v.isDirectory

\* validatePath from one await to the next, or to the error it throws.
ValidatePathResume(tk, docs) ==
    CASE tk.pc = "vp_access" ->
           IF tk.ret.st = "err" THEN Go(Suspend(tk, "vp_mkdir", Mkdir(tk.args.path)), docs)
           ELSE Go(Suspend(tk, "vp_stat", Stat(tk.args.path)), docs)
      [] tk.pc = "vp_mkdir" -> Throw(tk, docs, InvalidPath)
      [] tk.pc = "vp_stat" ->
           IF tk.ret.st = "err" THEN Throw(tk, docs, InvalidPath) ELSE Throw(tk, docs, NotADirectory)

-----------------------------------------------------------------------------
(* generate_component                                                      *)

\* generateComponentContent: args.props ? interface block : ''; the variant
\* is functional when type === 'functional' and class otherwise.
generateComponentContent(a) ==
    Text([doc |-> "component", name |-> Str(a, "name"),
          variant |-> IF Str(a, "type") = "functional" THEN "functional" ELSE "class",
          propsInterface |-> Has(a, "props"),
          propsType |-> Has(a, "props"),
          fields |-> IF Has(a, "props") THEN a.props ELSE EmptyObj])

generateComponentDocumentation(a) ==
    Text([doc |-> "componentUsage", name |-> Str(a, "name"),
          variant |-> IF Str(a, "type") = "functional" THEN "functional" ELSE "class",
          props |-> IF Has(a, "props") THEN a.props ELSE EmptyObj,
          noProps |-> ~Has(a, "props")])

GenerateComponentFailed == McpError("InternalError", "Failed to generate component")

GenerateComponentBegin(tk, docs) ==
    Go(Suspend(tk, "gc_write",
               WriteFile(Join(tk.args.path, Str(tk.args, "name") \o ".tsx"),
                         generateComponentContent(tk.args))), docs)

GenerateComponentResume(tk, docs) ==
    IF tk.pc \in ValidatePathPcs
    THEN IF ValidatePathReturns(tk) THEN GenerateComponentBegin(tk, docs) ELSE ValidatePathResume(tk, docs)
    ELSE IF tk.ret.st = "err" THEN Throw(tk, docs, GenerateComponentFailed)
    ELSE CASE tk.pc = "gc_write" ->
                Go(Suspend(tk, "gc_doc",
                           WriteFile(Join(tk.args.path, Str(tk.args, "name") \o ".md"),
                                     generateComponentDocumentation(tk.args))), docs)
           [] tk.pc = "gc_doc" -> Go(Finish(tk, Success("Component created successfully")), docs)

-----------------------------------------------------------------------------
(* create_type_definition                                                  *)

CreateTypeDefinitionFailed == McpError("InternalError", "Failed to create type definition")

\* Object.entries(args.properties) throws a TypeError, outside the try, when
\* properties is omitted.
CreateTypeDefinitionBegin(tk, docs) ==
    IF ~Has(tk.args, "properties") THEN Throw(tk, docs, RawError)
    ELSE Go(Suspend(tk, "td_write",
                    WriteFile(Join(tk.args.path, Str(tk.args, "name") \o ".ts"),
                              Text([doc |-> "type", name |-> Str(tk.args, "name"),
                                    properties |-> tk.args.properties]))), docs)

CreateTypeDefinitionResume(tk, docs) ==
    IF tk.pc \in ValidatePathPcs
    THEN IF ValidatePathReturns(tk) THEN CreateTypeDefinitionBegin(tk, docs) ELSE ValidatePathResume(tk, docs)
    ELSE IF tk.ret.st = "err" THEN Throw(tk, docs, CreateTypeDefinitionFailed)
    ELSE Go(Finish(tk, Success("Type definition created successfully")), docs)

-----------------------------------------------------------------------------
(* add_script                                                              *)

AddScriptFailed == McpError("InternalError", "Failed to add script")

\* Mutant: the file is rewritten as it was read.
WithScriptLeftOut(packageJson, a) ==
    Put(packageJson, "scripts", IF Has(packageJson, "scripts") THEN packageJson.scripts ELSE EmptyObj)

\* Mutant: the scripts section is replaced by the one new entry.
WithScriptAlone(packageJson, a) ==
    Put(packageJson, "scripts", [k \in {Str(a, "name")} |-> Str(a, "command")])

\* Mutant: the script is entered under its command.
WithScriptSwapped(packageJson, a) ==
    Put(packageJson, "scripts", [k \in {Str(a, "command")} |-> Str(a, "name")])

\* packageJson.scripts[args.name] = args.command, after scripts = {} when it
\* was absent; an omitted name is the key "undefined", and JSON.stringify
\* drops an entry whose value is undefined.
WithScript(packageJson, a) ==
    LET scripts == IF Has(packageJson, "scripts") THEN packageJson.scripts ELSE EmptyObj
    IN  Put(packageJson, "scripts", DropUndefined(Put(scripts, Str(a, "name"), Str(a, "command"))))

AddScriptBegin(tk, docs) ==
    Go(Suspend(tk, "as_read", ReadFile(Join(tk.args.path, "package.json"))), docs)

AddScriptResume(tk, docs) ==
    IF tk.pc \in ValidatePathPcs
    THEN IF ValidatePathReturns(tk) THEN AddScriptBegin(tk, docs) ELSE ValidatePathResume(tk, docs)
    ELSE IF tk.ret.st = "err" THEN Throw(tk, docs, AddScriptFailed)
    ELSE CASE tk.pc = "as_read" ->
                IF ~Parses(tk.ret.val) THEN Throw(tk, docs, AddScriptFailed)
                ELSE Go(Suspend(tk, "as_write",
                                WriteFile(Join(tk.args.path, "package.json"),
                                          Stringify(WithScript(tk.ret.val.v, tk.args)))), docs)
           [] tk.pc = "as_write" -> Go(Finish(tk, Success("Added script")), docs)

-----------------------------------------------------------------------------
(* update_tsconfig                                                         *)

UpdateTsConfigFailed == McpError("InternalError", "Failed to update TypeScript configuration")

\* The configuration used when tsconfig.json cannot be read or parsed.
DefaultTsConfig ==
    [compilerOptions |-> EmptyObj, include |-> <<"src/**/*">>, exclude |-> <<"node_modules", "dist">>]

\* tsconfig.compilerOptions = { ...tsconfig.compilerOptions, ...args.options }
MergedTsConfig(tsconfig, a) ==
    Put(tsconfig, "compilerOptions",
        Spread(IF Has(tsconfig, "compilerOptions") THEN tsconfig.compilerOptions ELSE EmptyObj,
               IF Has(a, "options") THEN a.options ELSE EmptyObj))

\* try { tsconfig = JSON.parse(await fs.readFile(...)) } catch { defaults }
TsConfigBase(ret) == IF ret.st = "ok" /\ Parses(ret.val) THEN ret.val.v ELSE DefaultTsConfig

UpdateTsConfigBegin(tk, docs) ==
    Go(Suspend(tk, "ut_read", ReadFile(Join(tk.args.path, "tsconfig.json"))), docs)

UpdateTsConfigResume(tk, docs) ==
    IF tk.pc \in ValidatePathPcs
    THEN IF ValidatePathReturns(tk) THEN UpdateTsConfigBegin(tk, docs) ELSE ValidatePathResume(tk, docs)
    ELSE CASE tk.pc = "ut_read" ->
                Go(Suspend(tk, "ut_write",
                           WriteFile(Join(tk.args.path, "tsconfig.json"),
                                     Stringify(MergedTsConfig(TsConfigBase(tk.ret), tk.args)))), docs)
           [] tk.pc = "ut_write" ->
                IF tk.ret.st = "err" THEN Throw(tk, docs, UpdateTsConfigFailed)
                ELSE Go(Finish(tk, Success("Updated TypeScript configuration")), docs)

-----------------------------------------------------------------------------
(* install_packages                                                        *)

InstallPackagesFailed == McpError("InternalError", "Failed to install packages")

\* Mutant: the install is never tagged as a dev install.
InstallCommandNeverDev(a) == Cmd("install", "npm install", a.packages, FALSE)

\* `npm install ${args.dev ? '--save-dev' : ''} ${args.packages.join(' ')}`
InstallCommand(a) ==
    Cmd("install",
        IF Has(a, "dev") /\ a.dev THEN "npm install --save-dev" ELSE "npm install",
        a.packages,
        Has(a, "dev") /\ a.dev)

InstallPackagesBegin(tk, docs) ==
    Go(Suspend(tk, "ip_access", Access(Join(tk.args.path, "package.json"))), docs)

InstallPackagesResume(tk, docs) ==
    IF tk.pc \in ValidatePathPcs
    THEN IF ValidatePathReturns(tk) THEN InstallPackagesBegin(tk, docs) ELSE ValidatePathResume(tk, docs)
    ELSE IF tk.ret.st = "err" THEN Throw(tk, docs, InstallPackagesFailed)
    ELSE CASE tk.pc = "ip_access" ->
                IF ~Has(tk.args, "packages")
                THEN \* args.packages.join throws a TypeError
                     Throw(tk, docs, InstallPackagesFailed)
                ELSE Go(Suspend(tk, "ip_exec", Exec(InstallCommand(tk.args), tk.args.path)), docs)
           [] tk.pc = "ip_exec" -> Go(Finish(tk, Success("Packages installed successfully")), docs)

-----------------------------------------------------------------------------
(* create_documentation                                                    *)

\* catch (error) of handleCreateDocumentation: McpError or not, everything
\* thrown inside the try leaves as InternalError.
CreateDocumentationCatch(err) == McpError("InternalError", "Failed to create documentation")

Field(o, k, default) == IF Has(o, k) THEN o[k] ELSE default

\* generateProjectDocumentation: rendered from five fields of package.json.
generateProjectDocumentation(packageJson) ==
    Text([doc |-> "project",
          name |-> Str(packageJson, "name"),
          description |-> Field(packageJson, "description", "A Node.js project"),
          scripts |-> Field(packageJson, "scripts", EmptyObj),
          dependencies |-> Field(packageJson, "dependencies", EmptyObj),
          devDependencies |-> Field(packageJson, "devDependencies", EmptyObj)])

\* Mutant: the API document is the empty text.
generateApiDocumentationEmpty == EmptyText

\* generateApiDocumentation: a fixed text, never empty.
generateApiDocumentation == Text([doc |-> "api"])

\* generateComponentDoc: /interface (\w+)Props {([^}]+)}/ matches the
\* interface block of a generated component, whose braces always enclose at
\* least the line break and indentation.
generateComponentDoc(componentName, componentContent) ==
    LET propsMatch == componentContent.t = "text" /\ componentContent.v.doc = "component"
                      /\ componentContent.v.propsInterface
    IN  Text([doc |-> "componentDoc", name |-> componentName,
              noPropsDefined |-> ~propsMatch,
              props |-> IF propsMatch THEN componentContent.v.fields ELSE EmptyObj])

\* Mutant: the content is stored when its write is started.
DocIoStoring(tk, docs, pc, fileName, content) ==
    Go([Suspend(tk, pc, WriteFile(Join(tk.args.path, fileName), content)) EXCEPT !.loc = content],
       Put(docs, Basename(tk.args.path), content))

\* const docPath = path.join(args.path, fileName);
\* await fs.writeFile(docPath, content)
DocIo(tk, docs, pc, fileName, content) ==
    Go([Suspend(tk, pc, WriteFile(Join(tk.args.path, fileName), content)) EXCEPT !.loc = content], docs)

CreateDocumentationBegin(tk, docs) ==
    LET a == tk.args
        type == Str(a, "type")
    IN  CASE type = "readme" -> Go(Suspend(tk, "cd_read", ReadFile(Join(a.path, "package.json"))), docs)
          [] type = "api" -> DocIo(tk, docs, "cd_write", "API.md", generateApiDocumentation)
          [] type = "component" ->
               IF ~Has(a, "name")
               THEN Throw(tk, docs, CreateDocumentationCatch(
                                        McpError("InvalidParams", "Component name is required")))
               ELSE Go(Suspend(tk, "cd_cread", ReadFile(Join(a.path, a.name \o ".tsx"))), docs)
          [] OTHER -> \* no case matches: content = '' and fileName = ''
               DocIo(tk, docs, "cd_write", "", EmptyText)

CreateDocumentationResume(tk, docs) ==
    LET a == tk.args
    IN  IF tk.pc \in ValidatePathPcs
    THEN IF ValidatePathReturns(tk) THEN CreateDocumentationBegin(tk, docs) ELSE ValidatePathResume(tk, docs)
        ELSE IF tk.ret.st = "err" THEN Throw(tk, docs, CreateDocumentationCatch(RawError))
        ELSE CASE tk.pc = "cd_read" ->
                    IF ~Parses(tk.ret.val) THEN Throw(tk, docs, CreateDocumentationCatch(RawError))
                    ELSE DocIo(tk, docs, "cd_write", "README.md",
                               generateProjectDocumentation(tk.ret.val.v))
               [] tk.pc = "cd_cread" ->
                    DocIo(tk, docs, "cd_write", a.name \o ".md", generateComponentDoc(a.name, tk.ret.val))
               [] tk.pc = "cd_write" ->
                    Go(Finish(tk, Success("Documentation created successfully")),
                       Put(docs, Basename(a.path), tk.loc))

-----------------------------------------------------------------------------
(* The CallToolRequestSchema handler.                                      *)

ToolNames == {"create_project", "install_packages", "generate_component",
              "create_type_definition", "add_script", "update_tsconfig", "create_documentation"}

UnknownTool == McpError("MethodNotFound", "Unknown tool")

\* inputSchema.required of each tool.
Required(tool) ==
    CASE tool = "create_project" -> {"name", "type", "path"}
      [] tool = "install_packages" -> {"packages", "path"}
      [] tool = "generate_component" -> {"name", "path", "type"}
      [] tool = "create_type_definition" -> {"name", "path", "properties"}
      [] tool = "add_script" -> {"path", "name", "command"}
      [] tool = "update_tsconfig" -> {"path", "options"}
      [] tool = "create_documentation" -> {"path", "type"}

\* Mutant: the switch has no default case.
CallToolBeginNoDefault(tk, docs) ==
    IF tk.tool = "create_project" THEN Go(CreateProjectBegin(tk), docs) ELSE ValidatePathBegin(tk, docs)

\* switch (request.params.name), up to the handler's first await.
CallToolBegin(tk, docs) ==
    CASE tk.tool = "create_project" -> Go(CreateProjectBegin(tk), docs)
      [] tk.tool \in ToolNames \ {"create_project"} -> ValidatePathBegin(tk, docs)
      [] OTHER -> Throw(tk, docs, UnknownTool)

\* The handler of task tk, from the await it is suspended at.
CallToolResume(tk, docs) ==
    CASE tk.tool = "create_project" -> CreateProjectResume(tk, docs)
      [] tk.tool = "install_packages" -> InstallPackagesResume(tk, docs)
      [] tk.tool = "generate_component" -> GenerateComponentResume(tk, docs)
      [] tk.tool = "create_type_definition" -> CreateTypeDefinitionResume(tk, docs)
      [] tk.tool = "add_script" -> AddScriptResume(tk, docs)
      [] tk.tool = "update_tsconfig" -> UpdateTsConfigResume(tk, docs)
      [] tk.tool = "create_documentation" -> CreateDocumentationResume(tk, docs)

\* A tools/call request arrives and runs to its first await.
\* Task slots are interchangeable: they are taken in order.
CallTool(t, name, a) ==
    /\ task[t].pc = "idle"
    /\ \A u \in Tasks : u < t => task[u].pc # "idle"
    /\ LET r == CallToolBegin([IdleTask EXCEPT !.tool = name, !.args = a], projectDocs)
       IN  /\ task' = [task EXCEPT ![t] = r.tk]
           /\ projectDocs' = r.docs
    /\ UNCHANGED <<fs, reply>>

\* The awaited operation has completed: the task runs to its next await or
\* to its answer.
Resume(t, name) ==
    /\ task[t].tool = name
    /\ InFlight(task[t])
    /\ task[t].ret.st \in {"ok", "err"}
    /\ LET r == CallToolResume(task[t], projectDocs)
       IN  /\ task' = [task EXCEPT ![t] = r.tk]
           /\ projectDocs' = r.docs
    /\ UNCHANGED <<fs, reply>>

-----------------------------------------------------------------------------
(* Requests and initial filesystems the model draws from.                  *)

Workspace == <<"w">>

ProjectDir == <<"w", "app">>

\* r with key k set to each of vs, or k omitted
Opt(rs, k, vs) == rs \cup {Put(r, k, v) : r \in rs, v \in vs}

\* Every project type and one unsupported, with typescript true, false and
\* omitted; and a request without name.
CreateProjectArgs ==
    Opt({[name |-> "app", type |-> ty, path |-> Workspace] : ty \in ProjectTypes \cup {"vue"}},
        "typescript", {TRUE, FALSE})
    \cup {[type |-> "node", path |-> Workspace]}

\* The create_project requests drawn where all seven tools are in play.
FewCreateProjectArgs ==
    {[name |-> "app", type |-> "node", path |-> Workspace],
     [name |-> "app", type |-> "react", path |-> Workspace, typescript |-> FALSE],
     [name |-> "app", type |-> "vue", path |-> Workspace],
     [type |-> "node", path |-> Workspace]}

InstallPackagesArgs ==
    {[path |-> ProjectDir, packages |-> <<"lodash">>, dev |-> d] : d \in BOOLEAN}
    \cup {[path |-> ProjectDir]}

GenerateComponentArgs ==
    {[name |-> "Btn", path |-> ProjectDir, type |-> "functional", props |-> [count |-> "number"]],
     [name |-> "Btn", path |-> ProjectDir, type |-> "functional", props |-> EmptyObj],
     [name |-> "Btn", path |-> ProjectDir, type |-> "class"],
     [name |-> "Btn", path |-> ProjectDir, type |-> "hook"],
     [path |-> ProjectDir, type |-> "functional"]}

CreateTypeDefinitionArgs ==
    {[name |-> "User", path |-> ProjectDir, properties |-> [id |-> "number"]],
     [name |-> "User", path |-> ProjectDir]}

AddScriptArgs ==
    {[path |-> ProjectDir, name |-> n, command |-> "tsc"] : n \in {"build", "lint"}}
    \cup {[path |-> ProjectDir, command |-> "tsc"], [name |-> "build", command |-> "tsc"],
          [path |-> Join(ProjectDir, "package.json"), name |-> "build", command |-> "tsc"]}

UpdateTsConfigArgs ==
    {[path |-> ProjectDir, options |-> o] :
        o \in {[strict |-> "false"], [noEmit |-> "true"], [strict |-> "true", noEmit |-> "false"]}}

CreateDocumentationArgs ==
    {[path |-> ProjectDir, type |-> ty] : ty \in {"readme", "api", "component", "changelog"}}
    \cup {[path |-> ProjectDir, type |-> "component", name |-> "Btn"]}

EmptyFs == [p \in {} |-> Dir]

\* A project directory made by hand: a package.json without scripts, and a
\* tsconfig.json that is either JSON or not.
ExistingProject(tsconfig) ==
    [p \in {Workspace, ProjectDir, Join(ProjectDir, "package.json"), Join(ProjectDir, "tsconfig.json")} |->
        CASE p = Join(ProjectDir, "package.json") -> File(Stringify([name |-> "app"]))
          [] p = Join(ProjectDir, "tsconfig.json") -> File(tsconfig)
          [] OTHER -> Dir]

InitialFs ==
    {EmptyFs,
     ExistingProject(Stringify([compilerOptions |-> [target |-> "es5"], include |-> <<"lib">>])),
     ExistingProject(Text([doc |-> "notJson"]))}

-----------------------------------------------------------------------------
(* The server.                                                             *)

NoReply == [kind |-> "none"]

InitWith(filesystems) ==
    /\ fs \in filesystems
    /\ projectDocs = EmptyObj
    /\ task = [t \in Tasks |-> IdleTask]
    /\ reply = NoReply

Init == InitWith(InitialFs)

Next ==
    \/ \E t \in Tasks, a \in FewCreateProjectArgs : CallTool(t, "create_project", a)
    \/ \E t \in Tasks, a \in InstallPackagesArgs : CallTool(t, "install_packages", a)
    \/ \E t \in Tasks, a \in GenerateComponentArgs : CallTool(t, "generate_component", a)
    \/ \E t \in Tasks, a \in CreateTypeDefinitionArgs : CallTool(t, "create_type_definition", a)
    \/ \E t \in Tasks, a \in AddScriptArgs : CallTool(t, "add_script", a)
    \/ \E t \in Tasks, a \in UpdateTsConfigArgs : CallTool(t, "update_tsconfig", a)
    \/ \E t \in Tasks, a \in CreateDocumentationArgs : CallTool(t, "create_documentation", a)
    \/ \E t \in Tasks : CallTool(t, "run_script", [script |-> "build", path |-> ProjectDir])
    \/ \E t \in Tasks : IoComplete(t)
    \/ \E t \in Tasks : Resume(t, "create_project")
    \/ \E t \in Tasks : Resume(t, "install_packages")
    \/ \E t \in Tasks : Resume(t, "generate_component")
    \/ \E t \in Tasks : Resume(t, "create_type_definition")
    \/ \E t \in Tasks : Resume(t, "add_script")
    \/ \E t \in Tasks : Resume(t, "update_tsconfig")
    \/ \E t \in Tasks : Resume(t, "create_documentation")

Spec == Init /\ [][Next]_vars

\* Requests for create_project alone.
NextProject ==
    \/ \E t \in Tasks, a \in CreateProjectArgs : CallTool(t, "create_project", a)
    \/ \E t \in Tasks : IoComplete(t)
    \/ \E t \in Tasks : Resume(t, "create_project")

\* On nothing, or on a project directory that is already there.
InitProject ==
    InitWith({EmptyFs, ExistingProject(Stringify([compilerOptions |-> [target |-> "es5"],
                                                  include |-> <<"lib">>]))})

SpecProject == InitProject /\ [][NextProject]_vars

-----------------------------------------------------------------------------
(* The prompt surface.  A string is the sequence of its atoms: a word, a   *)
(* comma or a blank; '' is the empty sequence.                             *)

PromptNames == {"create-project", "analyze-code", "generate-component", "git-commit", "debug-error"}

PromptArg(name, required) == [name |-> name, required |-> required]

\* initializePrompts: the arguments each prompt declares, in order.
PromptArguments(name) ==
    CASE name = "create-project" -> <<PromptArg("projectType", TRUE), PromptArg("features", FALSE)>>
      [] name = "analyze-code" -> <<PromptArg("code", TRUE), PromptArg("language", TRUE)>>
      [] name = "generate-component" -> <<PromptArg("name", TRUE), PromptArg("type", TRUE)>>
      [] name = "git-commit" -> <<PromptArg("changes", TRUE)>>
      [] name = "debug-error" -> <<PromptArg("error", TRUE)>>

\* !args?.[k], for arguments that may be omitted as a whole
Falsy(params, k) ==
    ~Has(params, "arguments") \/ ~Has(params.arguments, k) \/ params.arguments[k] = <<>>

\* Mutant: only an absent argument counts as missing.
FirstMissingFromAbsent(decl, params, i) ==
    LET absent == {j \in i..Len(decl) :
                      decl[j].required /\ (~Has(params, "arguments") \/ ~Has(params.arguments, decl[j].name))}
    IN  IF absent = {} THEN 0 ELSE CHOOSE j \in absent : \A k \in absent : j <= k

\* prompt.arguments.forEach(arg => { if (arg.required && !args?.[arg.name])
\* throw ... }), from the i-th argument on: the index of the argument the
\* loop throws at, or 0.
RECURSIVE FirstMissing(_, _, _)
FirstMissing(decl, params, i) ==
    IF i > Len(decl) THEN 0
    ELSE IF decl[i].required /\ Falsy(params, decl[i].name) THEN i
    ELSE FirstMissing(decl, params, i + 1)

\* s.split(',')
RECURSIVE SplitComma(_)
SplitComma(s) ==
    IF \A i \in 1..Len(s) : s[i] # "," THEN <<s>>
    ELSE LET c == CHOOSE i \in 1..Len(s) : s[i] = "," /\ \A j \in 1..(i - 1) : s[j] # ","
         IN  <<SubSeq(s, 1, c - 1)>> \o SplitComma(SubSeq(s, c + 1, Len(s)))

\* f.trim()
RECURSIVE Trim(_)
Trim(s) ==
    IF s = <<>> THEN s
    ELSE IF s[1] = " " THEN Trim(Tail(s))
    ELSE IF s[Len(s)] = " " THEN Trim(SubSeq(s, 1, Len(s) - 1))
    ELSE s

Includes(list, word) == \E i \in 1..Len(list) : list[i] = <<word>>

\* args.features?.split(',').map(f => f.trim()) || []
Features(a) ==
    IF Has(a, "features")
    THEN LET parts == SplitComma(a.features) IN [i \in 1..Len(parts) |-> Trim(parts[i])]
    ELSE <<>>

Arg(a, k) == IF Has(a, k) THEN a[k] ELSE <<"undefined">>

UserMessage(text) == [role |-> "user", text |-> text]

\* generatePromptMessages(name, args): the text is given by the values
\* substituted into the template.
generatePromptMessages(name, a) ==
    CASE name = "create-project" ->
           <<UserMessage([template |-> name, projectType |-> Arg(a, "projectType"),
                          features |-> IF Len(Features(a)) > 0 THEN Features(a)
                                       ELSE << <<"basic setup">> >>,
                          typescriptLine |-> Includes(Features(a), "typescript"),
                          testingLine |-> Includes(Features(a), "testing"),
                          dockerLine |-> Includes(Features(a), "docker")])>>
      [] name = "analyze-code" ->
           <<UserMessage([template |-> name, language |-> Arg(a, "language"), code |-> Arg(a, "code")])>>
      [] name = "generate-component" ->
           <<UserMessage([template |-> name, type |-> Arg(a, "type"), name |-> Arg(a, "name")])>>
      [] name = "git-commit" ->
           <<UserMessage([template |-> name, changes |-> Arg(a, "changes")])>>
      [] name = "debug-error" ->
           <<UserMessage([template |-> name, error |-> Arg(a, "error")])>>

PromptError(code, msg, arg) == [kind |-> "error", code |-> code, msg |-> msg, arg |-> arg, messages |-> <<>>]

\* The GetPromptRequestSchema handler.
GetPrompt(params) ==
    IF params.name \notin PromptNames
    THEN PromptError("InvalidParams", "Prompt not found", "")
    ELSE LET decl == PromptArguments(params.name)
             m == FirstMissing(decl, params, 1)
         IN  IF m # 0
             THEN PromptError("InvalidParams", "Missing required argument", decl[m].name)
             ELSE [kind |-> "success", code |-> "none", msg |-> "", arg |-> "",
                   messages |-> generatePromptMessages(
                                    params.name,
                                    IF Has(params, "arguments") THEN params.arguments ELSE EmptyObj)]

\* The ListPromptsRequestSchema handler: Object.values(this.prompts).
ListPrompts == {[name |-> n, arguments |-> PromptArguments(n)] : n \in PromptNames}

\* A prompts/get request is answered.
GetPromptRequest(params) ==
    /\ reply' = [kind |-> "getPrompt", params |-> params, out |-> GetPrompt(params)]
    /\ UNCHANGED <<fs, projectDocs, task>>

\* A prompts/list request is answered.
ListPromptsRequest ==
    /\ reply' = [kind |-> "listPrompts", prompts |-> ListPrompts]
    /\ UNCHANGED <<fs, projectDocs, task>>

\* Longest features string the model draws, in atoms.
MaxFeatureLen == 3

FeatureAtoms == {"typescript", "testing", "docker", ",", " "}

FeatureStrings == UNION {[1..n -> FeatureAtoms] : n \in 0..MaxFeatureLen}

\* The values an argument is drawn from: the empty string among them.
ArgValues(k) ==
    CASE k = "features" -> FeatureStrings
      [] k = "projectType" -> {<<>>, <<"react">>}
      [] k = "type" -> {<<>>, <<"functional">>}
      [] OTHER -> {<<>>, <<"x">>}

\* Every mapping of a subset of keys to values drawn for them.
ArgMaps(keys) ==
    UNION {{f \in [S -> UNION {ArgValues(k) : k \in S}] : \A k \in S : f[k] \in ArgValues(k)} :
              S \in SUBSET keys}

DeclaredNames(name) == {PromptArguments(name)[i].name : i \in 1..Len(PromptArguments(name))}

PromptRequests ==
    UNION {{[name |-> n]} \cup {[name |-> n, arguments |-> a] : a \in ArgMaps(DeclaredNames(n))} :
              n \in PromptNames}
    \cup {[name |-> "review-code"], [name |-> "review-code", arguments |-> [code |-> <<"x">>]]}

NextPrompt ==
    \/ \E params \in PromptRequests : GetPromptRequest(params)
    \/ ListPromptsRequest

InitPrompt == InitWith({EmptyFs})

SpecPrompt == InitPrompt /\ [][NextPrompt]_vars

-----------------------------------------------------------------------------
(* The resource surface.  The URI docs://<id> is the scheme and the        *)
(* characters after "docs://"; a text is the sequence of its atoms, an     *)
(* atom being a run of letters, a blank or a slash.                        *)

\* The atoms of the names the model draws.
Chars(s) == IF s = "my app" THEN <<"my", " ", "app">> ELSE <<s>>

\* `docs://${id}`
Uri(id) == [scheme |-> "docs", rest |-> Chars(id)]

RECURSIVE Concat(_)
Concat(s) == IF s = <<>> THEN "" ELSE s[1] \o Concat(Tail(s))

\* The authority of a URL ends at the first slash.
Authority(rest) ==
    IF \A i \in 1..Len(rest) : rest[i] # "/" THEN rest
    ELSE SubSeq(rest, 1, (CHOOSE i \in 1..Len(rest) : rest[i] = "/" /\ \A j \in 1..(i - 1) : rest[j] # "/") - 1)

\* new URL(uri).hostname, for a scheme that is not special: the host is
\* opaque (kept as written), and a blank in it makes the constructor throw
\* a TypeError.
Hostname(uri) ==
    LET host == Authority(uri.rest)
    IN  IF \E i \in 1..Len(host) : host[i] = " "
        THEN [ok |-> FALSE, name |-> ""]
        ELSE [ok |-> TRUE, name |-> Concat(host)]

ResourceOut(out, text) == [kind |-> out.kind, code |-> out.code, msg |-> out.msg, text |-> text]

\* Mutant: the listing is computed once, when the store is still empty.
ListResourcesCached(docs) == {}

\* The ListResourcesRequestSchema handler: one descriptor per entry.
ListResources(docs) == {[uri |-> Uri(id), name |-> id] : id \in DOMAIN docs}

\* The ReadResourceRequestSchema handler; !content holds for a missing
\* entry and for ''.
ReadResource(uri, docs) ==
    LET url == Hostname(uri)
        id == url.name
    IN  IF ~url.ok THEN ResourceOut(Failure(RawError), EmptyText)
        ELSE IF ~Has(docs, id) \/ docs[id].v.doc = "empty"
        THEN ResourceOut(Failure(McpError("MethodNotFound", "Documentation not found")), EmptyText)
        ELSE ResourceOut(Success(""), docs[id])

\* A resources/read request is answered.
ReadResourceRequest(uri) ==
    /\ reply' = [kind |-> "readResource", uri |-> uri, out |-> ReadResource(uri, projectDocs)]
    /\ UNCHANGED <<fs, projectDocs, task>>

\* Mutant: listing the resources empties the store.
ListResourcesRequestClearing ==
    /\ reply' = [kind |-> "listResources", resources |-> ListResources(projectDocs)]
    /\ projectDocs' = EmptyObj
    /\ UNCHANGED <<fs, task>>

\* A resources/list request is answered.
ListResourcesRequest ==
    /\ reply' = [kind |-> "listResources", resources |-> ListResources(projectDocs)]
    /\ UNCHANGED <<fs, projectDocs, task>>

\* A second project directory, with a blank in its name.
NotesDir == <<"w", "my app">>

DocIds == {"app", "my app", "ghost"}

ResourceUris == {Uri(id) : id \in DocIds} \cup {[scheme |-> "docs", rest |-> <<"app", "/", "README.md">>]}

DocsCreateProjectArgs ==
    {[name |-> "app", type |-> "node", path |-> Workspace, typescript |-> FALSE]}

DocsCreateDocumentationArgs ==
    {[path |-> ProjectDir, type |-> "readme"], [path |-> ProjectDir, type |-> "api"],
     [path |-> NotesDir, type |-> "api"], [path |-> ProjectDir, type |-> "changelog"]}

\* The two stores and their readers.
NextDocs ==
    \/ \E t \in Tasks, a \in DocsCreateProjectArgs : CallTool(t, "create_project", a)
    \/ \E t \in Tasks, a \in DocsCreateDocumentationArgs : CallTool(t, "create_documentation", a)
    \/ \E t \in Tasks : IoComplete(t)
    \/ \E t \in Tasks : Resume(t, "create_project")
    \/ \E t \in Tasks : Resume(t, "create_documentation")
    \/ \E uri \in ResourceUris : ReadResourceRequest(uri)
    \/ ListResourcesRequest

InitDocs ==
    InitWith({FsPut(ExistingProject(Stringify([compilerOptions |-> [target |-> "es5"],
                                               include |-> <<"lib">>])), NotesDir, Dir)})

SpecDocs == InitDocs /\ [][NextDocs]_vars

-----------------------------------------------------------------------------
(* update_tsconfig called by a client that waits for each answer before    *)
(* its next request.                                                       *)

\* JSON with comments, as tsc --init writes it: tsc reads it as the object
\* o, JSON.parse throws on it.
Jsonc(o) == [t |-> "jsonc", v |-> o]

\* The compilerOptions of every tsconfig.json this client starts from.
PriorOptions == [target |-> "es5"]

PriorTsConfig == [compilerOptions |-> PriorOptions, include |-> <<"lib">>]

\* A request sent when no other request is in flight.
SerialCallTool(t, name, a) ==
    /\ \A u \in Tasks : ~InFlight(task[u])
    /\ CallTool(t, name, a)

NextSerial ==
    \/ \E t \in Tasks, a \in UpdateTsConfigArgs : SerialCallTool(t, "update_tsconfig", a)
    \/ \E t \in Tasks : IoComplete(t)
    \/ \E t \in Tasks : Resume(t, "update_tsconfig")

InitSerial ==
    InitWith({ExistingProject(Stringify(PriorTsConfig)), ExistingProject(Jsonc(PriorTsConfig))})

SpecSerial == InitSerial /\ [][NextSerial]_vars

-----------------------------------------------------------------------------
(* All five read-only requests, next to the two tools that write the       *)
(* document store.                                                         *)

\* The ListToolsRequestSchema handler: the seven tools with the arguments
\* their schemas require.
ListTools == {[name |-> n, required |-> Required(n)] : n \in ToolNames}

\* A tools/list request is answered.
ListToolsRequest ==
    /\ reply' = [kind |-> "listTools", tools |-> ListTools]
    /\ UNCHANGED <<fs, projectDocs, task>>

\* One prompt request that succeeds, one that lacks its argument and one
\* for a prompt that is not defined.
SurfacePromptRequests ==
    {[name |-> "git-commit", arguments |-> [changes |-> <<"x">>]], [name |-> "git-commit"],
     [name |-> "review-code"]}

NextSurfaces ==
    \/ \E t \in Tasks, a \in DocsCreateProjectArgs : CallTool(t, "create_project", a)
    \/ \E t \in Tasks : CallTool(t, "create_documentation", [path |-> ProjectDir, type |-> "api"])
    \/ \E t \in Tasks : IoComplete(t)
    \/ \E t \in Tasks : Resume(t, "create_project")
    \/ \E t \in Tasks : Resume(t, "create_documentation")
    \/ ListToolsRequest
    \/ ListResourcesRequest
    \/ \E uri \in ResourceUris : ReadResourceRequest(uri)
    \/ ListPromptsRequest
    \/ \E params \in SurfacePromptRequests : GetPromptRequest(params)

SpecSurfaces == InitDocs /\ [][NextSurfaces]_vars

-----------------------------------------------------------------------------
(* One request of each tool, two at a time, on a server whose event loop   *)
(* runs every continuation whose awaited operation has settled.            *)

LiveRequests ==
    {[tool |-> "create_project", args |-> [name |-> "app", type |-> "react", path |-> Workspace]],
     [tool |-> "install_packages", args |-> [path |-> ProjectDir, packages |-> <<"lodash">>, dev |-> TRUE]],
     [tool |-> "generate_component", args |-> [name |-> "Btn", path |-> ProjectDir, type |-> "class"]],
     [tool |-> "create_type_definition",
      args |-> [name |-> "User", path |-> ProjectDir, properties |-> [id |-> "number"]]],
     [tool |-> "add_script", args |-> [path |-> ProjectDir, name |-> "build", command |-> "tsc"]],
     [tool |-> "update_tsconfig", args |-> [path |-> ProjectDir, options |-> [strict |-> "false"]]],
     [tool |-> "create_documentation", args |-> [path |-> ProjectDir, type |-> "api"]]}

NextLive ==
    \/ \E t \in Tasks, r \in LiveRequests : CallTool(t, r.tool, r.args)
    \/ \E t \in Tasks : IoComplete(t)
    \/ \E t \in Tasks, n \in ToolNames : Resume(t, n)

InitLive ==
    InitWith({EmptyFs, ExistingProject(Stringify([compilerOptions |-> [target |-> "es5"],
                                                  include |-> <<"lib">>]))})

\* A continuation whose awaited promise has settled is run.
SpecLive ==
    /\ InitLive
    /\ [][NextLive]_vars
    /\ \A t \in Tasks : WF_vars(\E n \in ToolNames : Resume(t, n))

-----------------------------------------------------------------------------
(* Properties of create_project, under SpecProject.                        *)

\* The side effects task tk has performed.
Effects(tk) == UNION {tk.log[i].fx : i \in 1..Len(tk.log)}

Answered(tk) == tk.pc = "done"

Succeeded(tk) == tk.pc = "done" /\ tk.out.kind = "success"

Failed(tk) == tk.pc = "done" /\ tk.out.kind # "success"

ReadmePath(a) == Join(Join(a.path, a.name), "README.md")

\* C1: a create_project that returns success has a supported type and leaves
\* the directory path/name with a README file in it and a Document Store
\* entry under name; unless another invocation wrote the same README (the
\* path was not fresh), that entry is the README generated for the arguments
\* and equals the file's content.
C1_ReadmeRecorded ==
    \A t \in Tasks :
        LET tk == task[t]
        IN  (tk.tool = "create_project" /\ Succeeded(tk)) =>
               /\ tk.args.type \in ProjectTypes
               /\ IsDir(fs, Join(tk.args.path, tk.args.name))
               /\ IsFile(fs, ReadmePath(tk.args))
               /\ Has(projectDocs, tk.args.name)
               /\ (\A u \in Tasks \ {t} : FxFile(ReadmePath(tk.args)) \notin Effects(task[u])) =>
                     /\ projectDocs[tk.args.name] =
                           generateReadme(tk.args.name, tk.args.type, TypescriptFlag(tk.args))
                     /\ fs[ReadmePath(tk.args)].data = projectDocs[tk.args.name]

\* A next project without typescript was created on an empty filesystem,
\* and nothing else wrote its README.
C1_Witness ==
    \E t \in Tasks :
        /\ task[t].tool = "create_project" /\ Succeeded(task[t])
        /\ task[t].args.type = "next" /\ ~TypescriptFlag(task[t].args)
        /\ ~Exists(fs, Join(ProjectDir, "tsconfig.json"))
        /\ \A u \in Tasks \ {t} : FxFile(ReadmePath(task[t].args)) \notin Effects(task[u])
        /\ projectDocs["app"] = fs[Join(ProjectDir, "README.md")].data

\* C2: create_project with an unsupported type fails with InvalidParams and
\* has performed no side effect.
C2_UnsupportedTypeRejected ==
    \A t \in Tasks :
        LET tk == task[t]
        IN  (/\ tk.tool = "create_project" /\ Answered(tk)
             /\ Has(tk.args, "name") /\ Has(tk.args, "path")
             /\ Str(tk.args, "type") \notin ProjectTypes) =>
               /\ tk.out.kind = "error" /\ tk.out.code = "InvalidParams"
               /\ Effects(tk) = {}

\* The step sequence the arguments call for: dependencies are installed
\* for every type but node, dev-dependencies unless the type is react or
\* next without typescript, the configuration only with typescript.
ExpectedSteps(a) ==
    IF ~Has(a, "name") \/ ~Has(a, "path") THEN <<>>
    ELSE IF Str(a, "type") \notin ProjectTypes THEN <<"cp_mkdir">>
    ELSE <<"cp_mkdir", "cp_gen">>
         \o (IF a.type # "node" THEN <<"cp_deps">> ELSE <<>>)
         \o (IF TypescriptFlag(a) \/ a.type \notin {"react", "next"} THEN <<"cp_dev">> ELSE <<>>)
         \o (IF TypescriptFlag(a) THEN <<"cp_src", "cp_tsconfig">> ELSE <<>>)
         \o <<"cp_readme">>

\* C3: whatever the interleaving, the steps an invocation has started are a
\* prefix of its step sequence, each started only after the one before it
\* completed successfully; success is returned, and the Document Store
\* written, only after the whole sequence.
C3_StepsInOrder ==
    /\ \A t \in Tasks :
          LET tk == task[t]
              E == ExpectedSteps(tk.args)
          IN  tk.tool = "create_project" =>
                 /\ Len(tk.log) <= Len(E)
                 /\ \A i \in 1..Len(tk.log) :
                       /\ tk.log[i].step = E[i]
                       /\ i < Len(tk.log) => tk.log[i].st = "ok"
                 /\ Succeeded(tk) =>
                       /\ Len(tk.log) = Len(E)
                       /\ tk.log[Len(E)].st = "ok"
    /\ projectDocs # EmptyObj => \E t \in Tasks : Succeeded(task[t])

\* One invocation has run all seven awaited steps and answered while
\* another is in the middle of its own.
C3_Witness ==
    \E t, u \in Tasks :
        /\ Succeeded(task[t]) /\ Len(task[t].log) = 7
        /\ InFlight(task[u]) /\ Len(task[u].log) >= 3
        /\ task[u].log[1].st = "ok"

\* C4: a step that fails is the last step of its invocation; what the
\* steps before it created is still there; and the Document Store holds no
\* entry that a successful invocation did not write.
C4_NoRollbackNoContinuation ==
    /\ \A t \in Tasks :
          LET tk == task[t]
          IN  tk.tool = "create_project" =>
                 /\ \A i \in 1..Len(tk.log) :
                       /\ tk.log[i].st = "err" => i = Len(tk.log)
                       /\ \A e \in tk.log[i].fx :
                             /\ e.k = "dir" => IsDir(fs, e.at)
                             /\ e.k = "file" => IsFile(fs, e.at)
                             /\ (e.k = "proc" /\ tk.log[i].st = "ok") =>
                                   IsFile(fs, Join(e.at, "package.json"))
                 /\ (Answered(tk) /\ tk.log # <<>> /\ tk.log[Len(tk.log)].st = "err") => Failed(tk)
    /\ \A id \in DOMAIN projectDocs :
          \E t \in Tasks : Succeeded(task[t]) /\ task[t].args.name = id

\* The dev-dependency install failed after the directory was made, the
\* generator ran and the dependencies were installed: all that is still
\* there, and the Document Store is empty.
C4_Witness ==
    \E t \in Tasks :
        /\ Failed(task[t])
        /\ Len(task[t].log) = 4 /\ task[t].log[4].step = "cp_dev" /\ task[t].log[4].st = "err"
        /\ FxDir(ProjectDir) \in Effects(task[t])
        /\ IsFile(fs, Join(ProjectDir, "package.json"))
        /\ projectDocs = EmptyObj

\* C5: every failure of create_project reaches the caller as InternalError.
C5_AlwaysInternalError ==
    \A t \in Tasks :
        (task[t].tool = "create_project" /\ Failed(task[t])) =>
            task[t].out.kind = "error" /\ task[t].out.code = "InternalError"

\* One invocation failed creating the directory, another resolving the
\* template of an unsupported type.
C5_Witness ==
    \E t, u \in Tasks :
        /\ Failed(task[t]) /\ Len(task[t].log) = 1 /\ task[t].log[1].st = "err"
        /\ Failed(task[u]) /\ Len(task[u].log) = 1 /\ task[u].log[1].st = "ok"
        /\ Str(task[u].args, "type") = "vue"
        /\ task[t].out.code = task[u].out.code

-----------------------------------------------------------------------------
(* Properties of the tool dispatcher, under Spec.                          *)

\* C6: a request for a name that is not one of the seven tools is answered
\* at once with MethodNotFound; no handler runs, and the filesystem and the
\* Document Store are as they were.
C6_UnknownToolRejected ==
    [][\A t \in Tasks :
          (task[t].pc = "idle" /\ task'[t].pc # "idle" /\ task'[t].tool \notin ToolNames) =>
              /\ task'[t].pc = "done"
              /\ task'[t].out.kind = "error" /\ task'[t].out.code = "MethodNotFound"
              /\ task'[t].log = <<>>
              /\ fs' = fs /\ projectDocs' = projectDocs]_vars

\* run_script was answered MethodNotFound while another request had
\* already changed the filesystem.
C6_Witness ==
    \E t, u \in Tasks :
        /\ task[t].tool = "run_script" /\ Answered(task[t])
        /\ task[t].out.code = "MethodNotFound"
        /\ Effects(task[u]) # {}

LastStep(tk) == tk.log[Len(tk.log)]

\* validatePath threw: path was omitted, or the mkdir or the stat failed, or
\* the path is not a directory.
ValidatePathThrew(tk) ==
    /\ Answered(tk) /\ tk.tool \in ToolNames \ {"create_project"}
    /\ \/ tk.log = <<>>
       \/ LastStep(tk).step \in {"vp_mkdir", "vp_stat"} /\ LastStep(tk).st = "err"
       \/ LastStep(tk).step = "vp_stat" /\ IsFile(fs, tk.args.path)

\* A TypeError left the handler: create_type_definition without properties,
\* once validatePath has returned.
RawErrorLeftHandler(tk) ==
    /\ Answered(tk) /\ tk.tool = "create_type_definition" /\ ~Has(tk.args, "properties")
    /\ ~ValidatePathThrew(tk)

\* C7: every answer is a success or an error with one of the three codes;
\* the InvalidParams of validatePath reaches the caller as InvalidParams, a
\* handler's InternalError as InternalError, and a thrown value that is no
\* McpError as InternalError.
C7_TypedOutcomes ==
    \A t \in Tasks :
        LET tk == task[t]
        IN  /\ Answered(tk) =>
                  \/ tk.out.kind = "success"
                  \/ /\ tk.out.kind = "error"
                     /\ tk.out.code \in {"MethodNotFound", "InvalidParams", "InternalError"}
            /\ ValidatePathThrew(tk) =>
                  tk.out.code = "InvalidParams" /\ tk.out.msg \in {InvalidPath.msg, NotADirectory.msg}
            /\ RawErrorLeftHandler(tk) =>
                  tk.out.code = "InternalError" /\ tk.out.msg = "Error executing"
            /\ (Failed(tk) /\ tk.tool = "add_script" /\ ~ValidatePathThrew(tk)) =>
                  tk.out.code = "InternalError" /\ tk.out.msg = AddScriptFailed.msg

\* One request was refused by validatePath because its path is a file, and
\* another threw a TypeError out of its handler.
C7_Witness ==
    \E t, u \in Tasks :
        /\ ValidatePathThrew(task[t]) /\ task[t].out.code = "InvalidParams"
        /\ task[t].log # <<>> /\ LastStep(task[t]).st = "ok"
        /\ RawErrorLeftHandler(task[u]) /\ task[u].out.code = "InternalError"

\* C8: an invocation answered with InvalidParams has performed no side
\* effect.
C8_InvalidParamsNoEffects ==
    \A t \in Tasks :
        (Answered(task[t]) /\ task[t].out.code = "InvalidParams") => Effects(task[t]) = {}

\* C9: an invocation that omits a declared-required argument never returns
\* success and never writes a file.
C9_RequiredArgumentsChecked ==
    \A t \in Tasks :
        LET tk == task[t]
        IN  (tk.tool \in ToolNames /\ \E k \in Required(tk.tool) : ~Has(tk.args, k)) =>
               /\ ~Succeeded(tk)
               /\ \A e \in Effects(tk) : e.k # "file"

-----------------------------------------------------------------------------
(* Properties of the prompt surface, under SpecPrompt.                     *)

\* The required arguments of a request that are absent or empty, by their
\* place in the declaration.
MissingRequired(params) ==
    LET decl == PromptArguments(params.name)
    IN  {i \in 1..Len(decl) :
            /\ decl[i].required
            /\ \/ ~Has(params, "arguments")
               \/ ~Has(params.arguments, decl[i].name)
               \/ params.arguments[decl[i].name] = <<>>}

\* C10: for each of the five prompts, get succeeds with rendered messages
\* if and only if every required argument is present and non-empty;
\* otherwise it fails with InvalidParams naming the first such argument in
\* declaration order, and renders nothing.
C10_RequiredPromptArguments ==
    (reply.kind = "getPrompt" /\ reply.params.name \in PromptNames) =>
        LET missing == MissingRequired(reply.params)
            decl == PromptArguments(reply.params.name)
        IN  /\ reply.out.kind = "success" <=> missing = {}
            /\ missing = {} =>
                  /\ Len(reply.out.messages) = 1
                  /\ reply.out.messages[1].text.template = reply.params.name
            /\ missing # {} =>
                  /\ reply.out.kind = "error" /\ reply.out.code = "InvalidParams"
                  /\ reply.out.messages = <<>>
                  /\ \E i \in missing :
                        /\ \A j \in missing : i <= j
                        /\ reply.out.arg = decl[i].name

\* analyze-code was asked for with code empty and language absent: the
\* error names code.
C10_Witness ==
    /\ reply.kind = "getPrompt" /\ reply.params.name = "analyze-code"
    /\ Has(reply.params, "arguments") /\ Has(reply.params.arguments, "code")
    /\ reply.params.arguments.code = <<>>
    /\ ~Has(reply.params.arguments, "language")
    /\ reply.out.code = "InvalidParams" /\ reply.out.arg = "code"

\* C11: getting a prompt whose name is not one of the five defined prompts
\* fails with the MethodNotFound error code.
C11_UnknownPromptMethodNotFound ==
    (reply.kind = "getPrompt" /\ reply.params.name \notin PromptNames) =>
        reply.out.kind = "error" /\ reply.out.code = "MethodNotFound"

-----------------------------------------------------------------------------
(* Properties of the document store and its readers, under SpecDocs.       *)

\* The step answers a resources/read request for uri.
ReadAnswered(uri) == reply' # reply /\ reply'.kind = "readResource" /\ reply'.uri = uri

\* Task tk is a successful create_documentation whose content is the one
\* now stored under id.
DocumentedAs(tk, id) ==
    /\ Succeeded(tk) /\ tk.tool = "create_documentation" /\ Basename(tk.args.path) = id
    /\ Has(projectDocs, id) /\ projectDocs[id] = tk.loc

\* C12: reading docs://<id> when nothing was ever stored under id fails with
\* MethodNotFound; reading it after a successful create_documentation whose
\* path ends in id returns the text that create_documentation wrote.
C12_ReadAfterWrite ==
    [][\A id \in DocIds :
          ReadAnswered(Uri(id)) =>
              /\ ~Has(projectDocs, id) =>
                    reply'.out.kind = "error" /\ reply'.out.code = "MethodNotFound"
              /\ \A t \in Tasks :
                    DocumentedAs(task[t], id) =>
                        reply'.out.kind = "success" /\ reply'.out.text = task[t].loc]_vars

\* C13: a content listing returns exactly one descriptor per entry of the
\* document store at the time of the request, with URI docs://<id>, and
\* none for an id that is not in the store.
C13_ListingMirrorsStore ==
    [][(reply' # reply /\ reply'.kind = "listResources") =>
          /\ \A id \in DOMAIN projectDocs :
                Cardinality({r \in reply'.resources : r.name = id}) = 1
          /\ \A r \in reply'.resources :
                /\ r.name \in DOMAIN projectDocs
                /\ r.uri.scheme = "docs" /\ r.uri.rest = Chars(r.name)]_vars

\* A listing made after both directories were documented shows both.
C13_Witness ==
    /\ reply.kind = "listResources"
    /\ {r.name : r \in reply.resources} = {"app", "my app"}
    /\ \A t \in Tasks : Succeeded(task[t]) /\ task[t].tool = "create_documentation"

\* The step ends task t's invocation with success.
Succeeds(t) == ~Succeeded(task[t]) /\ Succeeded(task'[t])

\* The id an invocation stores its content under.
StoreId(tk) == IF tk.tool = "create_project" THEN tk.args.name ELSE Basename(tk.args.path)

\* C14: no step removes an entry of the document store; a successful
\* create_project or create_documentation sets the entry of its id to the
\* content it wrote and leaves every other entry alone; nothing else
\* changes the store.
C14_LastWriteWins ==
    [][/\ \A id \in DOMAIN projectDocs : id \in DOMAIN projectDocs'
       /\ \A t \in Tasks :
             Succeeds(t) =>
                 /\ DOMAIN projectDocs' = DOMAIN projectDocs \cup {StoreId(task'[t])}
                 /\ projectDocs'[StoreId(task'[t])] = task'[t].loc
                 /\ \A id \in DOMAIN projectDocs :
                       id # StoreId(task'[t]) => projectDocs'[id] = projectDocs[id]
       /\ projectDocs' # projectDocs => \E t \in Tasks : Succeeds(t)]_vars

\* create_documentation stored its text under app, and a create_project
\* that succeeded after it replaced that text by its README.
C14_Witness ==
    \E t, u \in Tasks :
        /\ Succeeded(task[t]) /\ task[t].tool = "create_project"
        /\ Succeeded(task[u]) /\ task[u].tool = "create_documentation"
        /\ StoreId(task[t]) = StoreId(task[u])
        /\ projectDocs[StoreId(task[t])] = task[t].loc
        /\ task[t].loc # task[u].loc
        /\ reply.kind = "readResource" /\ reply.out.text = task[u].loc

-----------------------------------------------------------------------------
(* Properties of the handlers behind validatePath, under Spec.             *)

\* The step is the environment completing the operation task t awaits.
Completes(t) == task[t].ret.st = "pending" /\ task'[t].ret.st # "pending"

\* The step is task t running on from the await it was suspended at.
Resumes(t) == task[t].ret.st \in {"ok", "err"} /\ task'[t] # task[t]

PackageJsonOf(tk) == Join(tk.args.path, "package.json")

\* C15: add_script with path, name and command.  Where path has no
\* package.json the read fails and the invocation ends with InternalError;
\* where the package.json read has no scripts section, the file is
\* rewritten with a scripts mapping holding exactly name -> command, and
\* the invocation succeeds once that write has.
C15_AddScript ==
    [][\A t \in Tasks :
          LET tk == task[t]
              next == task'[t]
          IN  (tk.tool = "add_script" /\ {"path", "name", "command"} \subseteq DOMAIN tk.args) =>
                  /\ (tk.pc = "as_read" /\ Completes(t) /\ ~Exists(fs, PackageJsonOf(tk))) =>
                        next.ret.st = "err"
                  /\ (tk.pc = "as_read" /\ tk.ret.st = "err" /\ Resumes(t)) =>
                        Failed(next) /\ next.out.code = "InternalError"
                  /\ (tk.pc = "as_read" /\ tk.ret.st = "ok" /\ Resumes(t)
                         /\ Parses(tk.ret.val) /\ ~Has(tk.ret.val.v, "scripts")) =>
                        /\ next.pc = "as_write" /\ next.call.op = "writeFile"
                        /\ next.call.path = PackageJsonOf(tk)
                        /\ DOMAIN next.call.data.v.scripts = {tk.args.name}
                        /\ next.call.data.v.scripts[tk.args.name] = tk.args.command
                  /\ (tk.pc = "as_write" /\ Completes(t) /\ next.ret.st = "ok") =>
                        fs'[PackageJsonOf(tk)] = File(tk.call.data)
                  /\ (tk.pc = "as_write" /\ tk.ret.st = "ok" /\ Resumes(t)) =>
                        Succeeded(next)]_vars

\* add_script build succeeded on the project whose package.json had no
\* scripts, and the file now has the single script build.
C15_Witness ==
    \E t \in Tasks :
        /\ Succeeded(task[t]) /\ task[t].tool = "add_script"
        /\ Has(task[t].args, "name") /\ task[t].args.name = "build"
        /\ IsFile(fs, PackageJsonOf(task[t]))
        /\ fs[PackageJsonOf(task[t])].data.v = [name |-> "app", scripts |-> [k \in {"build"} |-> "tsc"]]

-----------------------------------------------------------------------------
(* Properties of successive update_tsconfig calls, under SpecSerial.       *)

TsConfigOf(tk) == Join(tk.args.path, "tsconfig.json")

\* The first two requests were update_tsconfig on the same path, both
\* succeeded, and nothing was requested after them.
TwoUpdatesDone ==
    /\ \A t \in {1, 2} : Succeeded(task[t]) /\ task[t].tool = "update_tsconfig"
    /\ task[1].args.path = task[2].args.path
    /\ \A t \in Tasks : t > 2 => task[t].pc = "idle"

\* C16: after two successive successful update_tsconfig calls with options
\* A then B, the keys of compilerOptions are the prior keys, those of A and
\* those of B; a key of B has B's value, and a key of A that is not in B
\* has A's value.
C16_SuccessiveMerges ==
    TwoUpdatesDone =>
        LET A == task[1].args.options
            B == task[2].args.options
            compilerOptions == fs[TsConfigOf(task[1])].data.v.compilerOptions
        IN  /\ DOMAIN compilerOptions = DOMAIN PriorOptions \cup DOMAIN A \cup DOMAIN B
            /\ \A k \in DOMAIN B : compilerOptions[k] = B[k]
            /\ \A k \in DOMAIN A \ DOMAIN B : compilerOptions[k] = A[k]

\* Task tk has ended with the InvalidParams error.
InvalidParamsAnswer(tk) == Failed(tk) /\ tk.out.code = "InvalidParams"

\* C17: validatePath never removes or alters an existing entry.  It stats
\* a path that exists and makes a path that does not; once made, the path
\* is a directory and validatePath returns; on an existing directory it
\* returns having changed nothing; on an existing entry that is not a
\* directory it fails with InvalidParams having changed nothing.
C17_ValidatePath ==
    [][\A t \in Tasks :
          LET tk == task[t]
              next == task'[t]
          IN  tk.pc \in ValidatePathPcs =>
                  /\ Completes(t) =>
                        /\ \A p \in DOMAIN fs : p \in DOMAIN fs' /\ fs'[p] = fs[p]
                        /\ tk.pc # "vp_mkdir" => fs' = fs
                        /\ tk.pc = "vp_access" => (next.ret.st = "ok" <=> Exists(fs, tk.args.path))
                        /\ (tk.pc = "vp_mkdir" /\ next.ret.st = "ok") => IsDir(fs', tk.args.path)
                        /\ (tk.pc = "vp_stat" /\ next.ret.st = "ok") =>
                              (next.ret.val.v.isDirectory <=> IsDir(fs, tk.args.path))
                  /\ Resumes(t) =>
                        /\ (tk.pc = "vp_access" /\ tk.ret.st = "ok") =>
                              next.pc = "vp_stat" /\ next.call = Stat(tk.args.path)
                        /\ (tk.pc = "vp_access" /\ tk.ret.st = "err") =>
                              next.pc = "vp_mkdir" /\ next.call = Mkdir(tk.args.path)
                        /\ (tk.pc = "vp_mkdir" /\ tk.ret.st = "ok") => ~InvalidParamsAnswer(next)
                        /\ (tk.pc = "vp_stat" /\ tk.ret.st = "ok" /\ tk.ret.val.v.isDirectory) =>
                              ~InvalidParamsAnswer(next) /\ Effects(tk) = {}
                        /\ (tk.pc = "vp_stat" /\ tk.ret.st = "ok" /\ ~tk.ret.val.v.isDirectory) =>
                              InvalidParamsAnswer(next) /\ Effects(next) = {}
                        /\ (tk.pc # "vp_access" /\ tk.ret.st = "err") => InvalidParamsAnswer(next)]_vars

\* One invocation was refused because its path is a file, having changed
\* nothing, and another went on past validatePath on the directory that
\* was already there.
C17_Witness ==
    \E t, u \in Tasks :
        /\ InvalidParamsAnswer(task[t]) /\ Len(task[t].log) = 2
        /\ LastStep(task[t]).step = "vp_stat" /\ LastStep(task[t]).st = "ok"
        /\ IsFile(fs, task[t].args.path) /\ Effects(task[t]) = {}
        /\ Len(task[u].log) > 2 /\ task[u].log[2].step = "vp_stat" /\ task[u].log[2].st = "ok"
        /\ IsDir(fs, task[u].args.path)

\* C18: create_documentation with type component and no name fails with
\* InvalidParams before any I/O: nothing was awaited, created, read or
\* written.
C18_ComponentNameCheckedFirst ==
    \A t \in Tasks :
        LET tk == task[t]
        IN  (/\ tk.tool = "create_documentation" /\ Str(tk.args, "type") = "component"
             /\ ~Has(tk.args, "name")) =>
                /\ tk.log = <<>>
                /\ Answered(tk) => InvalidParamsAnswer(tk)

\* Tasks t and u are two successful add_script invocations on the same
\* path for different script names, and no other add_script was made.
TwoScriptsAdded(t, u) ==
    /\ t # u
    /\ \A v \in {t, u} :
          /\ Succeeded(task[v]) /\ task[v].tool = "add_script"
          /\ {"path", "name", "command"} \subseteq DOMAIN task[v].args
    /\ task[t].args.path = task[u].args.path
    /\ task[t].args.name # task[u].args.name
    /\ \A v \in Tasks \ {t, u} : task[v].tool # "add_script"

ScriptsAt(p) == fs[Join(p, "package.json")].data.v.scripts

ScriptEntered(tk) ==
    /\ tk.args.name \in DOMAIN ScriptsAt(tk.args.path)
    /\ ScriptsAt(tk.args.path)[tk.args.name] = tk.args.command

\* C19: add_script invocations on one path are not serialized and the read
\* and the rewrite of package.json are separate steps: after two successful
\* invocations for different names the file is sure to hold the entry of
\* one of them (the one whose rewrite came last), not of both.
C19_LastRewriteStands ==
    \A t, u \in Tasks :
        TwoScriptsAdded(t, u) => ScriptEntered(task[t]) \/ ScriptEntered(task[u])

\* Both invocations read package.json before either rewrote it; both
\* succeeded and the file holds only one of the two scripts.
C19_Witness ==
    \E t, u \in Tasks :
        /\ TwoScriptsAdded(t, u)
        /\ ScriptEntered(task[t]) /\ ~ScriptEntered(task[u])
        /\ task[u].args.name \notin DOMAIN ScriptsAt(task[u].args.path)

\* The type argument of tk is outside the enumeration its tool declares.
TypeOutsideEnum(tk) ==
    /\ Has(tk.args, "type")
    /\ \/ tk.tool = "generate_component" /\ tk.args.type \notin {"functional", "class"}
       \/ tk.tool = "create_documentation" /\ tk.args.type \notin {"readme", "api", "component"}

\* C20: generate_component or create_documentation with a type outside
\* the declared enumeration fails with InvalidParams and writes no file.
C20_EnumerationsChecked ==
    \A t \in Tasks :
        (Answered(task[t]) /\ TypeOutsideEnum(task[t])) =>
            /\ InvalidParamsAnswer(task[t])
            /\ \A e \in Effects(task[t]) : e.k # "file"

-----------------------------------------------------------------------------
(* Properties of install_packages, under Spec.                             *)

\* The entries of tk's log for step.
StepsOf(tk, step) == {i \in 1..Len(tk.log) : tk.log[i].step = step}

\* The processes tk has spawned.
Spawned(tk) == {e \in Effects(tk) : e.k = "proc"}

\* C21: install_packages.  Where path has no package.json the access check
\* fails, the invocation ends with InternalError and no command is run.
\* Where it is there, one command is run for the whole package list, in
\* path, tagged as a dev install exactly when dev is true; no invocation
\* runs more than one command.
C21_InstallPackages ==
    /\ [](\A t \in Tasks :
          LET tk == task[t]
          IN  (tk.tool = "install_packages" /\ Has(tk.args, "path")) =>
                  /\ Cardinality(StepsOf(tk, "ip_exec")) <= 1
                  /\ Cardinality(Spawned(tk)) <= 1
                  /\ \A e \in Spawned(tk) :
                        /\ e.at = tk.args.path
                        /\ e.what.kind = "install" /\ e.what.pkgs = tk.args.packages
                        /\ e.what.dev <=> (Has(tk.args, "dev") /\ tk.args.dev)
                        /\ e.what.text = "npm install --save-dev" <=> (Has(tk.args, "dev") /\ tk.args.dev)
                  /\ \A i \in StepsOf(tk, "ip_access") :
                        /\ tk.log[i].st = "err" =>
                              /\ StepsOf(tk, "ip_exec") = {} /\ Spawned(tk) = {}
                              /\ Answered(tk) => Failed(tk) /\ tk.out.code = "InternalError"
                        /\ (tk.log[i].st = "ok" /\ Has(tk.args, "packages") /\ Answered(tk)) =>
                              Cardinality(StepsOf(tk, "ip_exec")) = 1)
    /\ [][\A t \in Tasks :
             (task[t].pc = "ip_access" /\ Completes(t)) =>
                 (task'[t].ret.st = "ok" <=> Exists(fs, PackageJsonOf(task[t])))]_vars

\* A dev install succeeded on the project: one command, tagged dev, was
\* run for the package list.
C21_Witness ==
    \E t \in Tasks :
        /\ Succeeded(task[t]) /\ task[t].tool = "install_packages"
        /\ Has(task[t].args, "dev") /\ task[t].args.dev
        /\ Spawned(task[t]) = {FxProc(ProjectDir, Cmd("install", "npm install --save-dev", <<"lodash">>, TRUE))}

-----------------------------------------------------------------------------
(* Properties of the read-only requests, under SpecSurfaces.               *)

ReadOnlyKinds == {"listTools", "listResources", "readResource", "listPrompts", "getPrompt"}

\* C22: a step that answers a tools/list, resources/list, resources/read,
\* prompts/list or prompts/get request, with a result or with an error,
\* leaves the document store, the filesystem and every invocation (and so
\* the processes spawned) as they were.
C22_ReadOnlySurfaces ==
    [][(reply' # reply /\ reply'.kind \in ReadOnlyKinds) =>
          /\ projectDocs' = projectDocs
          /\ fs' = fs
          /\ task' = task
          /\ \A t \in Tasks : Spawned(task'[t]) = Spawned(task[t])]_vars

\* A read failed with MethodNotFound while there is a document in the
\* store and a successful invocation has spawned a process.
C22_Witness ==
    /\ reply.kind = "readResource" /\ reply.out.kind = "error" /\ reply.out.code = "MethodNotFound"
    /\ Has(projectDocs, "app")
    /\ \E t \in Tasks : Succeeded(task[t]) /\ Spawned(task[t]) # {}

-----------------------------------------------------------------------------
(* Frame of add_script, under Spec.                                        *)

\* Object new is object old with scripts[name] = command: the other script
\* entries and the other top-level fields are those of old.
ScriptSetIn(old, new, name, command) ==
    LET before == IF Has(old, "scripts") THEN old.scripts ELSE EmptyObj
    IN  /\ DOMAIN new = (DOMAIN old) \cup {"scripts"}
        /\ \A f \in (DOMAIN old) \ {"scripts"} : new[f] = old[f]
        /\ DOMAIN new.scripts = (DOMAIN before) \cup {name}
        /\ new.scripts[name] = command
        /\ \A k \in (DOMAIN before) \ {name} : new.scripts[k] = before[k]

\* C23: add_script with path, name and command.  The read returns the
\* package.json content of that moment; the content handed to the rewrite
\* is the content read with scripts[name] = command, every other script
\* entry and every other top-level field kept; the rewrite puts exactly
\* that content in package.json and changes no other file; and the
\* invocation succeeds only by returning from that rewrite.
C23_AddScriptFrame ==
    [][\A t \in Tasks :
          LET tk == task[t]
              next == task'[t]
          IN  (tk.tool = "add_script" /\ {"path", "name", "command"} \subseteq DOMAIN tk.args) =>
                  /\ (tk.pc = "as_read" /\ Completes(t) /\ next.ret.st = "ok") =>
                        next.ret.val = fs[PackageJsonOf(tk)].data /\ fs' = fs
                  /\ (tk.pc = "as_read" /\ tk.ret.st = "ok" /\ Resumes(t) /\ Parses(tk.ret.val)) =>
                        /\ next.pc = "as_write" /\ next.call.op = "writeFile"
                        /\ next.call.path = PackageJsonOf(tk)
                        /\ Parses(next.call.data)
                        /\ ScriptSetIn(tk.ret.val.v, next.call.data.v, tk.args.name, tk.args.command)
                  /\ (tk.pc = "as_write" /\ Completes(t) /\ next.ret.st = "ok") =>
                        /\ fs'[PackageJsonOf(tk)] = File(tk.call.data)
                        /\ \A p \in (DOMAIN fs) \ {PackageJsonOf(tk)} : p \in DOMAIN fs' /\ fs'[p] = fs[p]
                  /\ (~Succeeded(tk) /\ Succeeded(next)) =>
                        tk.pc = "as_write" /\ tk.ret.st = "ok"]_vars

\* add_script lint succeeded on a package.json that already had the
\* script build and the field name: the file has both scripts and the
\* field.
C23_Witness ==
    \E t \in Tasks :
        /\ Succeeded(task[t]) /\ task[t].tool = "add_script"
        /\ Has(task[t].args, "name") /\ task[t].args.name = "lint"
        /\ IsFile(fs, PackageJsonOf(task[t]))
        /\ fs[PackageJsonOf(task[t])].data.v
              = [name |-> "app", scripts |-> [k \in {"build", "lint"} |-> "tsc"]]

-----------------------------------------------------------------------------
(* The base of the update_tsconfig merge, under SpecSerial.                *)

\* C24: update_tsconfig starts from the empty configuration with the
\* default include and exclude only when path has no tsconfig.json; when
\* the file is there, the invocation either rewrites it from the file's
\* own content merged with options, or fails.
C24_ExistingConfigIsBase ==
    [][\A t \in Tasks :
          LET tk == task[t]
              next == task'[t]
          IN  (tk.tool = "update_tsconfig" /\ tk.pc = "ut_read" /\ Resumes(t)) =>
                  IF IsFile(fs, TsConfigOf(tk))
                  THEN \/ Failed(next)
                       \/ /\ next.pc = "ut_write"
                          /\ next.call.data.v = MergedTsConfig(fs[TsConfigOf(tk)].data.v, tk.args)
                  ELSE /\ next.pc = "ut_write"
                       /\ next.call.data.v = MergedTsConfig(DefaultTsConfig, tk.args)]_vars

-----------------------------------------------------------------------------
(* The typescript flag of create_project, under SpecProject.               *)

\* typescript as the caller gave it, true when omitted.
TypescriptAsked(a) == IF Has(a, "typescript") THEN a.typescript ELSE TRUE

SrcOf(a) == Join(Join(a.path, a.name), "src")

ProjectTsConfigOf(a) == Join(Join(a.path, a.name), "tsconfig.json")

\* C25: in create_project typescript is true when omitted.  Only an
\* invocation with typescript true starts the steps that make src and
\* write tsconfig.json, and one that succeeds has completed both; the
\* configuration handed to the write has a jsx mode exactly for the types
\* react and next, and is the file's content unless another invocation
\* wrote the file too.  An invocation with typescript false makes no src
\* and writes no tsconfig.json.
C25_TypescriptFlag ==
    \A t \in Tasks :
        LET tk == task[t]
            a == tk.args
            jsx == Str(a, "type") \in {"react", "next"}
            others == \E u \in Tasks \ {t} : FxFile(ProjectTsConfigOf(a)) \in Effects(task[u])
        IN  (tk.tool = "create_project" /\ Has(a, "name") /\ Has(a, "path")) =>
               /\ (StepsOf(tk, "cp_src") # {} \/ StepsOf(tk, "cp_tsconfig") # {}) => TypescriptAsked(a)
               /\ ~TypescriptAsked(a) =>
                     FxDir(SrcOf(a)) \notin Effects(tk) /\ FxFile(ProjectTsConfigOf(a)) \notin Effects(tk)
               /\ tk.pc = "cp_tsconfig" =>
                     /\ tk.call.op = "writeFile" /\ tk.call.path = ProjectTsConfigOf(a)
                     /\ Has(tk.call.data.v.compilerOptions, "jsx") <=> jsx
               /\ (Succeeded(tk) /\ TypescriptAsked(a)) =>
                     /\ \E i \in StepsOf(tk, "cp_src") : tk.log[i].st = "ok"
                     /\ \E i \in StepsOf(tk, "cp_tsconfig") : tk.log[i].st = "ok"
                     /\ IsDir(fs, SrcOf(a))
                     /\ FxFile(ProjectTsConfigOf(a)) \in Effects(tk)
                     /\ ~others =>
                           /\ IsFile(fs, ProjectTsConfigOf(a))
                           /\ Has(fs[ProjectTsConfigOf(a)].data.v.compilerOptions, "jsx") <=> jsx
                           /\ fs[ProjectTsConfigOf(a)].data.v.compilerOptions.target = "es2020"

\* A next project with typescript omitted was created and its
\* tsconfig.json has a jsx mode; a project with typescript false was
\* created too, and that invocation made no src and wrote no tsconfig.json.
C25_Witness ==
    \E t, u \in Tasks :
        /\ Succeeded(task[t]) /\ task[t].tool = "create_project"
        /\ ~Has(task[t].args, "typescript") /\ task[t].args.type = "next"
        /\ Has(fs[ProjectTsConfigOf(task[t].args)].data.v.compilerOptions, "jsx")
        /\ Succeeded(task[u]) /\ task[u].tool = "create_project"
        /\ Has(task[u].args, "typescript") /\ ~task[u].args.typescript
        /\ StepsOf(task[u], "cp_src") = {} /\ StepsOf(task[u], "cp_tsconfig") = {}

-----------------------------------------------------------------------------
(* Termination of an invocation, under SpecLive.                           *)

\* Task tk awaits an operation the environment has not completed.
Awaiting(tk) == InFlight(tk) /\ tk.ret.st = "pending"

\* C26: an invocation starts each of its awaited steps at most once; an
\* invocation that awaits an operation does not move, and is not answered,
\* until the environment completes that operation; and if every awaited
\* operation is eventually completed, every invocation is eventually
\* answered, with success or with an error.
C26_Termination ==
    /\ [](\A t \in Tasks :
             /\ \A i, j \in 1..Len(task[t].log) :
                   i # j => task[t].log[i].step # task[t].log[j].step
             /\ Answered(task[t]) => task[t].out.kind \in {"success", "error", "raw"})
    /\ [][\A t \in Tasks :
             Awaiting(task[t]) =>
                \/ task'[t] = task[t]
                \/ /\ Completes(t)
                   /\ task'[t].pc = task[t].pc /\ task'[t].call = task[t].call
                   /\ task'[t].out = task[t].out]_vars
    /\ (\A t \in Tasks : WF_vars(IoComplete(t))) =>
          \A t \in Tasks : InFlight(task[t]) ~> Answered(task[t])

\* A create_project that ran its seven steps has been answered with
\* success while another invocation awaits a subprocess.
C26_Witness ==
    \E t, u \in Tasks :
        /\ Succeeded(task[t]) /\ task[t].tool = "create_project" /\ Len(task[t].log) = 7
        /\ Awaiting(task[u]) /\ task[u].call.op = "exec"

-----------------------------------------------------------------------------
(* Writers of the document store, under Spec.                              *)

StoreWriters == {"create_project", "create_documentation"}

\* The step is task t being answered.
Answers(t) == ~Answered(task[t]) /\ Answered(task'[t])

\* C27: the Document Store changes only in the step in which an invocation
\* of create_project or create_documentation is answered with success,
\* after its last awaited step and with no effect on the filesystem; the
\* step that answers an invocation with an error, and every step of an
\* invocation of another tool, leaves the store as it was.
C27_StoreWriters ==
    [][/\ projectDocs' # projectDocs =>
             \E t \in Tasks :
                /\ Answers(t) /\ Succeeded(task'[t])
                /\ task[t].tool \in StoreWriters
                /\ task[t].ret.st = "ok" /\ task'[t].log = task[t].log
                /\ fs' = fs
                /\ \A u \in Tasks \ {t} : task'[u] = task[u]
       /\ \A t \in Tasks :
             /\ (Answers(t) /\ Failed(task'[t])) => projectDocs' = projectDocs
             /\ (task'[t] # task[t] /\ task'[t].tool \notin StoreWriters) =>
                   projectDocs' = projectDocs]_vars

\* create_documentation has stored its content and an add_script, an
\* invocation of another tool, has succeeded as well: the store holds
\* exactly what create_documentation stored.
C27_Witness ==
    \E t, u \in Tasks :
        /\ t < u
        /\ Succeeded(task[t]) /\ task[t].tool = "create_documentation"
        /\ Succeeded(task[u]) /\ task[u].tool = "add_script"
        /\ projectDocs = [k \in {"app"} |-> task[t].loc]

-----------------------------------------------------------------------------
(* Two create_project invocations on one project, under SpecProject.       *)

\* Tasks t and u are successful create_project invocations with the same
\* name and path and different types.
SameProjectTwice(t, u) ==
    /\ t # u
    /\ \A v \in {t, u} :
          /\ Succeeded(task[v]) /\ task[v].tool = "create_project"
    /\ task[t].args.name = task[u].args.name
    /\ task[t].args.path = task[u].args.path
    /\ task[t].args.type # task[u].args.type

\* C28: after two create_project invocations with the same name and path
\* and different types have both succeeded, the Document Store entry for
\* name is the content of the README file at path/name.
C28_StoreIsReadmeFile ==
    \A t, u \in Tasks :
        SameProjectTwice(t, u) =>
            /\ Has(projectDocs, task[t].args.name)
            /\ IsFile(fs, ReadmePath(task[t].args))
            /\ projectDocs[task[t].args.name] = fs[ReadmePath(task[t].args)].data

-----------------------------------------------------------------------------
(* Stored contents and their reads, under SpecDocs.                        *)

\* The URL parser gives id back as the host of docs://<id>.
PassesUnchanged(id) == Hostname(Uri(id)).ok /\ Hostname(Uri(id)).name = id

\* C29: no content in the Document Store is the empty text; a read of
\* docs://<id>, for an id in the store that the URI gives back unchanged,
\* returns the stored content.
C29_StoredContentReadable ==
    /\ [](\A id \in DOMAIN projectDocs : projectDocs[id] # EmptyText)
    /\ [][\A id \in DOMAIN projectDocs :
             (ReadAnswered(Uri(id)) /\ PassesUnchanged(id)) =>
                 reply'.out.kind = "success" /\ reply'.out.text = projectDocs[id]]_vars

\* A create_documentation whose type matches no case, and whose content is
\* therefore empty, failed at its write and stored nothing; the content
\* stored under app was read.
C29_Witness ==
    /\ reply.kind = "readResource" /\ reply.uri = Uri("app")
    /\ reply.out.kind = "success" /\ reply.out.text = projectDocs["app"]
    /\ \E t \in Tasks :
          /\ Failed(task[t]) /\ task[t].tool = "create_documentation"
          /\ task[t].args.type = "changelog" /\ task[t].loc = EmptyText
          /\ StepsOf(task[t], "cd_write") # {}

-----------------------------------------------------------------------------
(* The property interface of a generated component, under Spec.            *)

\* C30: the component file generate_component writes has a
\* property-interface block, and the component a props type, exactly when
\* props is supplied and has at least one entry.
C30_PropsInterfaceIffEntries ==
    \A t \in Tasks :
        LET tk == task[t]
            entries == Has(tk.args, "props") /\ DOMAIN tk.args.props # {}
        IN  (tk.tool = "generate_component" /\ tk.pc = "gc_write") =>
               /\ tk.call.op = "writeFile"
               /\ tk.call.data.v.propsInterface <=> entries
               /\ tk.call.data.v.propsType <=> entries

====
